---- MODULE Spec2Model ----
(***************************************************************************)
(* Model of packages/source-commonmark/src/index.ts: the token stream of   *)
(* markdown-it is folded into a node tree (toTree), and the tree is walked *)
(* depth first (Parser.walk) while a two-step generator                    *)
(* (Parser.convertTokenToAnnotation) appends placeholder units to the text *)
(* buffer and pushes 'parse-token' markers and semantic annotations.       *)
(*                                                                         *)
(* Strings that the code indexes or measures (content, tag, info, text     *)
(* values) are sequences of units, one per character: the placeholder     *)
(* U+FFFC is the unit OBJ, a backtick the unit BT.  Tokens are objects in  *)
(* the code: the model                                                     *)
(* keeps them in the sequence tokens, in the order toTree meets them, and  *)
(* a node's open / close fields hold indices into it (0 is undefined).     *)
(* Nodes are kept in the sequence tree; node 1 is the root object          *)
(* { children: [] } the constructor passes to toTree.                      *)
(***************************************************************************)
EXTENDS Integers, Sequences, FiniteSets, TLC

VARIABLES
  profile,      \* which family of token streams and handlers this run draws from
  pc,           \* "toTree" | "walk" | "done" | "failed"
  tokens,       \* the token objects toTree has met so far, in order
  tree,         \* the node objects, root first
  calls,        \* the active toTree calls, innermost last:
                \* [cur, need, rootNode, via]
  content,      \* this.content
  annotations,  \* this.annotations
  owner,        \* history: owner[i] is the node annotations[i] was pushed for
  built,        \* history: the tree as toTree returned it
  wstack,       \* the active walk calls, innermost last: [node, idx, start]
  hlog,         \* history: the handler calls made so far:
                \*   [node, throws, patch, pushed, length], the last two the
                \*   lengths of annotations and content when it was called
  error,        \* "none" | "TypeError" | "HandlerError"
  result,       \* what the caller of new Parser(...) holds once it returns
  q             \* the query engine's run: [phase, raw, doc, A, B, given, rel, pairs]

vars == <<profile, pc, tokens, tree, calls, content, annotations, owner, built,
          wstack, hlog, error, result, q>>

\* The longest token stream (nested child tokens counted) a run reads.
MaxTokens == 4

\* The longest selection handed to join.
MaxSel == 2

\* The most annotations in a pasted document.
MaxDoc == 3

\* ------------------------------------------------------------------ values

OBJ == "OBJ"
BT == "BT"

\* Attribute values are tagged, as JavaScript values are typed.
Num(n) == <<"num", n>>
NaN == <<"nan">>
Bool(b) == <<"bool", b>>
Text(s) == <<"text", s>>
Name(s) == <<"name", s>>

EmptyMap == <<>>

\* attributes[key] = value  /  Object.assign(target, {key: value})
Put(map, key, value) == (key :> value) @@ map

\* Mutant: keys already present are kept, the patch only adds new ones.
AssignMissing(target, patch) == target @@ patch

\* Object.assign(target, patch): every key of patch overrides target's.
Assign(target, patch) == patch @@ target

RECURSIVE Concat(_)
Concat(seqs) == IF seqs = <<>> THEN <<>> ELSE Head(seqs) \o Concat(Tail(seqs))

\* ------------------------------------------------------------------ tokens

\* A MarkdownIt.Token, with the fields the code reads.  type is base \o suffix,
\* split so that replace(/_open$/, '') is computed and not assumed.  kids says
\* whether token.children is a non-empty array; the child tokens themselves
\* are read by a nested toTree call.
Tok(base, suffix, nesting) ==
  [base |-> base, suffix |-> suffix, nesting |-> nesting, tag |-> <<>>,
   content |-> <<>>, attrs |-> <<>>, hidden |-> FALSE, info |-> <<>>,
   kids |-> FALSE]

TokType(tok) == tok.base \o tok.suffix

\* token.type.replace(/_open$/, '')
StripOpen(tok) == IF tok.suffix = "_open" THEN tok.base ELSE TokType(tok)

TSoftbreak == [Tok("softbreak", "", 0) EXCEPT !.tag = <<"b", "r">>]
TText(s) == [Tok("text", "", 0) EXCEPT !.content = s]
TInline == Tok("inline", "", 0)
TOpen(base) == Tok(base, "_open", 1)
TClose(base) == Tok(base, "_close", -1)
THeading(n) == [TOpen("heading") EXCEPT !.tag = <<"h", n>>]
TParagraph(hidden) == [TOpen("paragraph") EXCEPT !.hidden = hidden]
TCode(s) == [Tok("code_inline", "", 0) EXCEPT !.content = s]
TFence(info, s) == [Tok("fence", "", 0) EXCEPT !.info = info, !.content = s]
TImage(attrs) == [Tok("image", "", 0) EXCEPT !.attrs = attrs, !.kids = TRUE]
TImageLeaf(attrs, s) == [Tok("image", "", 0) EXCEPT !.attrs = attrs, !.content = s]

\* The families of token streams explored: a run reads any stream of at most
\* MaxTokens + more tokens over the tokens of one family, with that family's
\* handlers registered.
Profiles ==
  [ inline |->
      [toks |-> {THeading("2"), TOpen("em"), TText(<<"a">>), TText(<<"b">>),
                 TClose("em")},
       handlers |-> {}, more |-> 1],
    list |->
      [toks |-> {TOpen("bullet_list"), TOpen("list_item"), TParagraph(TRUE),
                 TClose("list_item")},
       handlers |-> {}, more |-> 1],
    listtext |->
      [toks |-> {TOpen("ordered_list"), TOpen("list_item"), TParagraph(FALSE),
                 TText(<<"a">>), TClose("ordered_list")},
       handlers |-> {}, more |-> 0],
    image |->
      [toks |-> {TImage(<<<<"src", Text(<<"s">>)>>, <<"alt", Text(<<"x">>)>>>>),
                 TImageLeaf(<<>>, <<"c">>), TOpen("em"), TText(<<"a">>),
                 TCode(<<"b">>), TClose("em")},
       handlers |-> {}, more |-> 0],
    flow |->
      [toks |-> {TSoftbreak, TText(<<"a">>), TInline, TOpen("paragraph"),
                 TClose("paragraph")},
       handlers |-> {}, more |-> 0],
    code |->
      [toks |-> {TCode(<<BT>>), TCode(<<"a", BT>>), TCode(<<BT, "a">>),
                 TCode(<<>>), [Tok("html_inline", "", 0) EXCEPT !.content = <<BT>>]},
       handlers |-> {}, more |-> 0],
    handler |->
      [toks |-> {[THeading("1") EXCEPT
                    !.attrs = <<<<"id", Text(<<"i">>)>>, <<"level", Text(<<"l">>)>>>>],
                 TFence(<<" ", "j", "&amp;", " ">>, <<"c">>),
                 TText(<<"a">>), TClose("heading")},
       handlers |-> {"heading", "fence"}, more |-> 0],
    override |->
      [toks |-> {TOpen("bullet_list"), TOpen("list_item"), TParagraph(TRUE),
                 TImageLeaf(<<<<"alt", Text(<<"x">>)>>>>, <<"c">>)},
       handlers |-> {"bullet_list", "image"}, more |-> 0] ]

Vocab == Profiles[profile].toks

\* this.handlers[name] is truthy
HasHandler(name) == name \in Profiles[profile].handlers

\* What a handler call can do: return one of these patches, or throw.
Patches ==
  { EmptyMap,
    ("level" :> Num(9)) @@ ("tight" :> Bool(FALSE)) @@ ("alt" :> Text(<<"z">>))
      @@ ("extra" :> Name("e")) }

\* ------------------------------------------------------------------- nodes

Root == 1

\* A Node; hasChildren is false where the code leaves children undefined
\* (text nodes); open / close index tokens, 0 where the field is absent.
Node(name, open, close, parent) ==
  [name |-> name, open |-> open, close |-> close, value |-> <<>>,
   parent |-> parent, children |-> <<>>, hasChildren |-> TRUE]

TextNode(value, parent) ==
  [name |-> "text", open |-> 0, close |-> 0, value |-> value,
   parent |-> parent, children |-> <<>>, hasChildren |-> FALSE]

\* parent.children.push(node); the new node's id is Len(t) + 1
AddChild(t, parent, node) ==
  [Append(t, node) EXCEPT ![parent].children = Append(@, Len(t) + 1)]

\* ------------------------------------------------------------------ toTree

\* currentNode of the innermost toTree call (0 is undefined)
Cur == calls[Len(calls)].cur

\* currentNode = node, in the innermost call; the call has now seen a token
SetCur(node) ==
  [calls EXCEPT ![Len(calls)].cur = node, ![Len(calls)].need = FALSE]

\* A toTree(tokens, rootNode) call as it starts, made from the call site via;
\* need: its token array is known to hold a token.
Call(rootNode, via, need) ==
  [cur |-> rootNode, need |-> need, rootNode |-> rootNode, via |-> via]

\* The branch of the if / else-if chain of toTree's loop body a token takes.
Branch(tok) ==
  IF tok.tag = <<"b", "r">> /\ TokType(tok) = "softbreak" THEN "softbreak"
  ELSE IF TokType(tok) = "text" THEN "text"
  ELSE IF TokType(tok) = "inline" THEN "inline"
  ELSE IF tok.kids THEN "children"
  ELSE IF tok.nesting = 1 THEN "open"
  ELSE IF tok.nesting = -1 THEN "close"
  ELSE "atomic"

\* The loop of the innermost call meets tok, which takes branch b.
Meets(tok, b) ==
  /\ pc = "toTree"
  /\ Len(tokens) < MaxTokens + Profiles[profile].more
  /\ tok \in Vocab
  /\ Branch(tok) = b
  /\ tokens' = Append(tokens, tok)

\* Reading a property of undefined: the TypeError leaves the constructor.
Throws(kind) ==
  /\ pc' = "failed"
  /\ error' = kind

WalkUntouched ==
  UNCHANGED <<content, annotations, owner, built, wstack, hlog, result>>

Softbreak ==
  \E tok \in Vocab :
    /\ Meets(tok, "softbreak")
    /\ IF Cur = 0
       THEN Throws("TypeError") /\ UNCHANGED <<tree, calls>>
       ELSE /\ tree' = AddChild(tree, Cur, TextNode(<<"\n">>, Cur))
            /\ calls' = SetCur(Cur)
            /\ UNCHANGED <<pc, error>>
    /\ UNCHANGED <<q, profile>> /\ WalkUntouched

TextToken ==
  \E tok \in Vocab :
    /\ Meets(tok, "text")
    /\ IF Cur = 0
       THEN Throws("TypeError") /\ UNCHANGED <<tree, calls>>
       ELSE /\ tree' = AddChild(tree, Cur, TextNode(tok.content, Cur))
            /\ calls' = SetCur(Cur)
            /\ UNCHANGED <<pc, error>>
    /\ UNCHANGED <<q, profile>> /\ WalkUntouched

\* Mutant: the nested call of an inline token starts at the root.
InlineAtRoot ==
  \E tok \in Vocab :
    /\ Meets(tok, "inline")
    /\ calls' = Append(SetCur(Cur), Call(Root, "inline", FALSE))
    /\ UNCHANGED <<q, profile, pc, error, tree>> /\ WalkUntouched

\* toTree(token.children, currentNode): a nested call whose cursor starts at
\* the outer cursor; token.children may be empty.
InlineToken ==
  \E tok \in Vocab :
    /\ Meets(tok, "inline")
    /\ calls' = Append(SetCur(Cur), Call(Cur, "inline", FALSE))
    /\ UNCHANGED <<q, profile, pc, error, tree>> /\ WalkUntouched

\* A token with child tokens: a node without close, its children built by a
\* nested call over token.children, which holds at least one token.
ChildrenToken ==
  \E tok \in Vocab :
    /\ Meets(tok, "children")
    /\ IF Cur = 0
       THEN Throws("TypeError") /\ UNCHANGED <<tree, calls>>
       ELSE /\ tree' = AddChild(tree, Cur,
                         Node(TokType(tok), Len(tokens) + 1, 0, Cur))
            /\ calls' = Append(SetCur(Cur), Call(Len(tree) + 1, "children", TRUE))
            /\ UNCHANGED <<pc, error>>
    /\ UNCHANGED <<q, profile>> /\ WalkUntouched

OpenToken ==
  \E tok \in Vocab :
    /\ Meets(tok, "open")
    /\ IF Cur = 0
       THEN Throws("TypeError") /\ UNCHANGED <<tree, calls>>
       ELSE /\ tree' = AddChild(tree, Cur,
                         Node(StripOpen(tok), Len(tokens) + 1, Len(tokens) + 1, Cur))
            /\ calls' = SetCur(Len(tree) + 1)
            /\ UNCHANGED <<pc, error>>
    /\ UNCHANGED <<q, profile>> /\ WalkUntouched

\* currentNode.close = token; currentNode = currentNode.parent
CloseToken ==
  \E tok \in Vocab :
    /\ Meets(tok, "close")
    /\ IF Cur = 0
       THEN Throws("TypeError") /\ UNCHANGED <<tree, calls>>
       ELSE /\ tree' = [tree EXCEPT ![Cur].close = Len(tokens) + 1]
            /\ calls' = SetCur(tree[Cur].parent)
            /\ UNCHANGED <<pc, error>>
    /\ UNCHANGED <<q, profile>> /\ WalkUntouched

\* The padding of a code span whose content starts or ends with a backtick.
PadFirst(text) ==
  IF Len(text) > 0 /\ text[1] = BT THEN <<" ">> \o text ELSE text

PadLast(text) ==
  IF Len(text) > 0 /\ text[Len(text)] = BT THEN text \o <<" ">> ELSE text

\* Mutant: every atomic token's content is padded.
AtomicTextPadded(tok) == PadLast(PadFirst(tok.content))

AtomicText(tok) ==
  IF TokType(tok) = "code_inline" THEN PadLast(PadFirst(tok.content))
  ELSE tok.content

\* Mutant: the cursor moves into the leaf node.
AtomicDescends ==
  \E tok \in Vocab :
    /\ Meets(tok, "atomic")
    /\ IF Cur = 0
       THEN Throws("TypeError") /\ UNCHANGED <<tree, calls>>
       ELSE /\ LET id == Len(tree) + 1
                   t1 == AddChild(tree, Cur,
                           Node(TokType(tok), Len(tokens) + 1, Len(tokens) + 1, Cur))
               IN tree' = AddChild(t1, id, TextNode(AtomicText(tok), Cur))
            /\ calls' = SetCur(Len(tree) + 1)
            /\ UNCHANGED <<pc, error>>
    /\ UNCHANGED <<q, profile>> /\ WalkUntouched

\* An atomic token: a node whose open and close are the token, with one
\* synthetic text child, whose parent field is currentNode.
Atomic ==
  \E tok \in Vocab :
    /\ Meets(tok, "atomic")
    /\ IF Cur = 0
       THEN Throws("TypeError") /\ UNCHANGED <<tree, calls>>
       ELSE /\ LET id == Len(tree) + 1
                   t1 == AddChild(tree, Cur,
                           Node(TokType(tok), Len(tokens) + 1, Len(tokens) + 1, Cur))
               IN tree' = AddChild(t1, id, TextNode(AtomicText(tok), Cur))
            /\ calls' = SetCur(Cur)
            /\ UNCHANGED <<pc, error>>
    /\ UNCHANGED <<q, profile>> /\ WalkUntouched

\* The forEach of a nested call ends: control is back in the outer call, whose
\* own cursor is untouched.
ReturnNested ==
  /\ pc = "toTree"
  /\ Len(calls) > 1
  /\ ~calls[Len(calls)].need
  /\ calls' = SubSeq(calls, 1, Len(calls) - 1)
  /\ UNCHANGED <<q, profile, pc, tokens, tree, error>> /\ WalkUntouched

\* The outermost call returns rootNode; the constructor walks its children.
ReturnRoot ==
  /\ pc = "toTree"
  /\ Len(calls) = 1
  /\ pc' = "walk"
  /\ calls' = <<>>
  /\ wstack' = <<[node |-> Root, idx |-> 1, start |-> 0]>>
  /\ built' = tree
  /\ UNCHANGED <<q, profile, tokens, tree, content, annotations, owner, hlog, error,
                 result>>

\* -------------------------------------------------------------- attributes

RECURSIVE Reduce(_, _)
\* (token.attrs || []).reduce(...): a later entry overrides an earlier one
Reduce(attrs, attributes) ==
  IF attrs = <<>> THEN attributes
  ELSE Reduce(Tail(attrs), Put(attributes, Head(attrs)[1], Head(attrs)[2]))

getAttributes(token) == Reduce(token.attrs, EmptyMap)

Digits ==
  ("0" :> 0) @@ ("1" :> 1) @@ ("2" :> 2) @@ ("3" :> 3) @@ ("4" :> 4) @@
  ("5" :> 5) @@ ("6" :> 6) @@ ("7" :> 7) @@ ("8" :> 8) @@ ("9" :> 9)

\* parseInt(open.tag[1], 10): the second character of the tag, as a number
ParseLevel(tag) ==
  IF Len(tag) >= 2 /\ tag[2] \in DOMAIN Digits THEN Num(Digits[tag[2]]) ELSE NaN

RECURSIVE TrimLeft(_)
TrimLeft(s) == IF s # <<>> /\ Head(s) = " " THEN TrimLeft(Tail(s)) ELSE s

RECURSIVE TrimRight(_)
TrimRight(s) ==
  IF s # <<>> /\ s[Len(s)] = " " THEN TrimRight(SubSeq(s, 1, Len(s) - 1)) ELSE s

Trim(s) == TrimRight(TrimLeft(s))

\* entities.decodeHTML5: an entity, kept as one unit, becomes its character
DecodeHTML5(s) == [i \in 1..Len(s) |-> IF s[i] = "&amp;" THEN "&" ELSE s[i]]

\* The attributes before any handler: the open token's, then heading level
\* and fence info.
TypeAttributes(name, open) ==
  LET a0 == getAttributes(open)
      a1 == IF name = "heading" THEN Put(a0, "level", ParseLevel(open.tag)) ELSE a0
  IN IF name = "fence" THEN Put(a1, "info", Text(DecodeHTML5(Trim(open.info))))
     ELSE a1

\* Object.assign(attributes, this.handlers[name](open))
FinalAttributes(name, open, patch) == Assign(TypeAttributes(name, open), patch)

\* -------------------------------------------------------------------- walk

\* Mutant: only the direct text children are gathered.
getTextShallow(t, kids, i) ==
  SelectSeq(kids, LAMBDA child : t[child].name = "text")

RECURSIVE getText(_, _, _)
\* The text nodes below a node, in document order; called with the node's
\* children and 1.
getText(t, kids, i) ==
  IF i > Len(kids) THEN <<>>
  ELSE LET child == kids[i]
           here == IF t[child].name = "text" THEN <<child>>
                   ELSE IF t[child].hasChildren THEN getText(t, t[child].children, 1)
                   ELSE <<>>
       IN here \o getText(t, kids, i + 1)

\* getText(node).map(n => n.value).join('')
AltText(t, node) ==
  LET texts == getText(t, t[node].children, 1)
  IN Concat([i \in 1..Len(texts) |-> t[texts[i]].value])

IsList(name) == name = "bullet_list" \/ name = "ordered_list"

\* Mutant: any paragraph child counts, hidden or not.
HasParagraph(t, toks, item) ==
  \E j \in 1..Len(t[item].children) : t[t[item].children[j]].name = "paragraph"

\* items.children.filter(child => child.name === 'paragraph')
\*                .some(child => child.open.hidden)
HasHiddenParagraph(t, toks, item) ==
  \E j \in 1..Len(t[item].children) :
    /\ t[t[item].children[j]].name = "paragraph"
    /\ toks[t[t[item].children[j]].open].hidden

RECURSIVE SomeItem(_, _, _, _)
\* node.children.some(items => ...), left to right from item i: "true" at the
\* first item that holds a hidden paragraph, "TypeError" at an item without
\* children met before one, "false" at the end.
SomeItem(t, toks, kids, i) ==
  IF i > Len(kids) THEN "false"
  ELSE IF ~t[kids[i]].hasChildren THEN "TypeError"
  ELSE IF HasHiddenParagraph(t, toks, kids[i]) THEN "true"
  ELSE SomeItem(t, toks, kids, i + 1)

IsTight(t, toks, node) == SomeItem(t, toks, t[node].children, 1)

\* token.attrs = token.attrs || []; token.attrs.push([key, value])
PushAttr(toks, open, key, value) ==
  [toks EXCEPT ![open].attrs = Append(@, <<key, value>>)]

\* What walk does to the open token of a node before the generator is made.
PrepareTokens(t, toks, node) ==
  IF t[node].name = "image"
  THEN PushAttr(toks, t[node].open, "alt", Text(AltText(t, node)))
  ELSE IF IsList(t[node].name)
  THEN PushAttr(toks, t[node].open, "tight", Bool(IsTight(t, toks, node) = "true"))
  ELSE toks

\* node.children = [] for an image
PrepareTree(t, node) ==
  IF t[node].name = "image" THEN [t EXCEPT ![node].children = <<>>] ELSE t

OpenMarker(name, start) ==
  [type |-> "parse-token", attributes |-> ("type" :> Name(name \o "_open")),
   start |-> start, end |-> start + 1]

CloseMarker(name, end) ==
  [type |-> "parse-token", attributes |-> ("type" :> Name(name \o "_close")),
   start |-> end - 1, end |-> end]

\* Mutant: the end is taken one unit past the closing placeholder.
SemanticPastEnd(name, attributes, start, end) ==
  [type |-> name, attributes |-> attributes, start |-> start, end |-> end + 1]

\* Mutant: the start is re-read when the generator resumes, so the annotation
\* spans the last two units instead of starting at the opening placeholder.
SemanticLateStart(name, attributes, start, end) ==
  [type |-> name, attributes |-> attributes, start |-> end - 2, end |-> end]

\* Mutant: the start is taken one unit before the opening placeholder.
SemanticEarlyStart(name, attributes, start, end) ==
  [type |-> name, attributes |-> attributes,
   start |-> IF start > 0 THEN start - 1 ELSE 0, end |-> end]

Semantic(name, attributes, start, end) ==
  [type |-> name, attributes |-> attributes, start |-> start, end |-> end]

\* Mutant: unshift instead of push.
PushFront(anns, new) == new \o anns

\* Mutant: the newest published element is replaced by the pushed ones.
PushOver(anns, new) == SubSeq(anns, 1, Len(anns) - 1) \o new

\* this.annotations.push(...)
Push(anns, new) == anns \o new

Top == wstack[Len(wstack)]

\* The loop of the innermost walk call still has a node to visit.
HasNext == Top.idx <= Len(tree[Top.node].children)

NextChild == tree[Top.node].children[Top.idx]

\* Mutant: the loop steps over the node that follows.
AdvanceTwo(ws) == [ws EXCEPT ![Len(ws)].idx = @ + 2]

\* The innermost walk call moves to the next node of its array.
Advance(ws) == [ws EXCEPT ![Len(ws)].idx = @ + 1]

\* Mutant: a text node is stepped over and its value not appended.
WalkTextDropped ==
  /\ pc = "walk"
  /\ HasNext
  /\ tree[NextChild].name = "text"
  /\ wstack' = Advance(wstack)
  /\ UNCHANGED <<q, profile, pc, tokens, tree, calls, content, annotations, owner,
                 built, hlog, error, result>>

\* this.content += node.value
WalkText ==
  /\ pc = "walk"
  /\ HasNext
  /\ tree[NextChild].name = "text"
  /\ content' = content \o tree[NextChild].value
  /\ wstack' = Advance(wstack)
  /\ UNCHANGED <<q, profile, pc, tokens, tree, calls, annotations, owner, built,
                 hlog, error, result>>

\* A non-text node is met: alt / tight are pushed on its open token, the
\* generator runs to its yield, and walk descends into the node's children.
\* The tightness scan throws on an item without children, before anything
\* is appended.
WalkEnter ==
  /\ pc = "walk"
  /\ HasNext
  /\ tree[NextChild].name # "text"
  /\ LET node == NextChild
         name == tree[node].name
         start == Len(content)
     IN IF IsList(name) /\ IsTight(tree, tokens, node) = "TypeError"
        THEN /\ Throws("TypeError")
             /\ UNCHANGED <<tokens, tree, content, annotations, owner, wstack>>
        ELSE /\ tokens' = PrepareTokens(tree, tokens, node)
             /\ tree' = PrepareTree(tree, node)
             /\ content' = content \o <<OBJ>>
             /\ annotations' = Push(annotations, <<OpenMarker(name, start)>>)
             /\ owner' = Push(owner, <<node>>)
             /\ wstack' = Append(wstack, [node |-> node, idx |-> 1, start |-> start])
             /\ UNCHANGED <<pc, error>>
  /\ UNCHANGED <<q, profile, calls, built, hlog, result>>

\* What the call this.handlers[name](open) can do.
Outcomes ==
  {[throws |-> TRUE, patch |-> EmptyMap]}
    \cup {[throws |-> FALSE, patch |-> p] : p \in Patches}

\* Mutant: the semantic annotation is pushed twice.
FinalizedTwice(name, open, patch, start, end) ==
  <<CloseMarker(name, end),
    Semantic(name, FinalAttributes(name, open, patch), start, end),
    Semantic(name, FinalAttributes(name, open, patch), start, end)>>

\* The annotations the generator pushes when it is resumed.
Finalized(name, open, patch, start, end) ==
  <<CloseMarker(name, end),
    Semantic(name, FinalAttributes(name, open, patch), start, end)>>

\* walk returns from a node's children and resumes the generator: the
\* closing placeholder, the attributes, the close marker and the annotation.
LeaveWith(patch) ==
  LET node == Top.node
      name == tree[node].name
      open == tokens[tree[node].open]
  IN /\ content' = content \o <<OBJ>>
     /\ LET new == Finalized(name, open, patch, Top.start, Len(content) + 1)
        IN /\ annotations' = Push(annotations, new)
           /\ owner' = Push(owner, [i \in 1..Len(new) |-> node])
     /\ wstack' = Advance(SubSeq(wstack, 1, Len(wstack) - 1))
     /\ UNCHANGED <<pc, error>>

\* Mutant: the handler's error is caught and the node finalized without a patch.
HandlerSwallowed == LeaveWith(EmptyMap)

\* The handler throws: the closing placeholder is already in the buffer,
\* nothing is pushed, and the error leaves walk and the constructor.
HandlerThrows ==
  /\ content' = content \o <<OBJ>>
  /\ Throws("HandlerError")
  /\ UNCHANGED <<annotations, owner, wstack>>

CanLeave == pc = "walk" /\ Len(wstack) > 1 /\ ~HasNext

WalkLeave ==
  /\ CanLeave
  /\ ~HasHandler(tree[Top.node].name)
  /\ LeaveWith(EmptyMap)
  /\ UNCHANGED <<q, profile, tokens, tree, calls, built, hlog, result>>

WalkLeaveHandled ==
  /\ CanLeave
  /\ HasHandler(tree[Top.node].name)
  /\ \E o \in Outcomes :
       /\ hlog' = Append(hlog, [node |-> Top.node, throws |-> o.throws,
                                patch |-> o.patch, pushed |-> Len(annotations),
                                length |-> Len(content) + 1])
       /\ IF o.throws THEN HandlerThrows ELSE LeaveWith(o.patch)
  /\ UNCHANGED <<q, profile, tokens, tree, calls, built, result>>

\* walk returns to the constructor, which returns: the caller holds the
\* parser and reads its content and annotations.
WalkDone ==
  /\ pc = "walk"
  /\ Len(wstack) = 1
  /\ ~HasNext
  /\ pc' = "done"
  /\ wstack' = <<>>
  /\ result' = [returned |-> TRUE, content |-> content,
                annotations |-> annotations]
  /\ UNCHANGED <<q, profile, tokens, tree, calls, content, annotations, owner,
                 built, hlog, error>>

\* ------------------------------------------------------------ query engine

\* No query is running.
QIdle ==
  [phase |-> "idle", raw |-> <<>>, doc |-> <<>>, A |-> <<>>, B |-> <<>>,
   given |-> <<<<>>, <<>>>>, rel |-> "isAlignedWith", pairs |-> <<>>]

\* An annotation as the query engine sees it.
QAnn(type, span) ==
  [type |-> type, attributes |-> EmptyMap, start |-> span[1], end |-> span[2]]

\* The intervals annotations are drawn from.
Spans == {<<5, 12>>, <<5, 11>>}

RECURSIVE SeqsUpTo(_, _)
\* the sequences over S of length at most n
SeqsUpTo(S, n) ==
  IF n = 0 THEN {<<>>}
  ELSE SeqsUpTo(S, n - 1)
         \cup {Append(s, x) : s \in {t \in SeqsUpTo(S, n - 1) : Len(t) = n - 1}, x \in S}

\* Mutant: only the starts are compared.
SameStart(a, b) == a.start = b.start

\* a.isAlignedWith(b)
IsAlignedWith(a, b) == a.start = b.start /\ a.end = b.end

\* The relations a caller passes to join.
Relations == {"isAlignedWith", "sameType"}

\* relation(a, b)
Holds(rel, a, b) ==
  IF rel = "isAlignedWith" THEN IsAlignedWith(a, b) ELSE a.type = b.type

\* where({type}): the annotations of that type, in input order
Where(anns, type) == SelectSeq(anns, LAMBDA a : a.type = type)

RECURSIVE JoinRow(_, _, _, _)
\* the pairs of one left annotation with the right ones from index j on
JoinRow(a, B, rel, j) ==
  IF j > Len(B) THEN <<>>
  ELSE (IF Holds(rel, a, B[j]) THEN <<[left |-> a, right |-> B[j]]>> ELSE <<>>)
       \o JoinRow(a, B, rel, j + 1)

RECURSIVE JoinFrom(_, _, _, _)
JoinFrom(A, B, rel, i) ==
  IF i > Len(A) THEN <<>>
  ELSE JoinRow(A[i], B, rel, 1) \o JoinFrom(A, B, rel, i + 1)

\* Mutant: a left annotation is paired with its first match only.
JoinFirstMatch(A, B, rel) ==
  Concat([i \in 1..Len(A) |->
            LET row == JoinRow(A[i], B, rel, 1)
            IN IF row = <<>> THEN <<>> ELSE <<Head(row)>>])

\* A.join(B, relation): every pair of the product that satisfies relation
Join(A, B, rel) == JoinFrom(A, B, rel, 1)

\* The parser is not running while the query engine is exercised.
ParserIdle ==
  /\ profile = "inline"
  /\ pc = "idle"
  /\ tokens = <<>>
  /\ tree = <<>>
  /\ calls = <<>>
  /\ content = <<>>
  /\ annotations = <<>>
  /\ owner = <<>>
  /\ built = <<>>
  /\ wstack = <<>>
  /\ hlog = <<>>
  /\ error = "none"
  /\ result = [returned |-> FALSE, content |-> <<>>, annotations |-> <<>>]

ParserUntouched ==
  UNCHANGED <<profile, pc, tokens, tree, calls, content, annotations, owner,
              built, wstack, hlog, error, result>>

\* links.join(underlines, relation): the call and its result
JoinCall ==
  /\ q.phase = "selected"
  /\ q' = [q EXCEPT !.phase = "joined", !.pairs = Join(q.A, q.B, q.rel)]
  /\ ParserUntouched

\* Two selections of at most MaxSel annotations each, of any types, and a
\* relation.
JoinInit ==
  /\ ParserIdle
  /\ \E A, B \in SeqsUpTo({QAnn(t, s) : t \in {"-offset-link", "-offset-underline"},
                                        s \in Spans}, MaxSel) :
       \E rel \in Relations :
         q = [phase |-> "selected", raw |-> <<>>, doc |-> <<>>, A |-> A, B |-> B,
              given |-> <<A, B>>, rel |-> rel, pairs |-> <<>>]

JoinNext == JoinCall

JoinSpec == JoinInit /\ [][JoinNext]_vars

\* ------------------------------------------------------------ pasted documents

\* The annotation types of a Google Docs paste and their offset counterparts.
GDocsTypes == {"-gdocs-ts_un", "-gdocs-lnks_link", "-gdocs-ts_bd"}

\* the vocabulary remap of one annotation type
OffsetType(type) ==
  CASE type = "-gdocs-ts_un" -> "-offset-underline"
    [] type = "-gdocs-lnks_link" -> "-offset-link"
    [] type = "-gdocs-ts_bd" -> "-offset-bold"
    [] OTHER -> type

\* The remap, applied to each annotation on its own.
Remapped(doc) == [i \in 1..Len(doc) |-> [doc[i] EXCEPT !.type = OffsetType(@)]]

\* Mutant: the pairs are found and nothing is removed.
DiscardNothing(doc, pairs) == doc

\* The document without the right annotation of each pair (the underline).
Discard(doc, pairs) ==
  SelectSeq(doc, LAMBDA a : \A k \in 1..Len(pairs) : pairs[k].right # a)

\* The clean-up pass: underlines that coincide with a link are removed.
Reconciled(doc) ==
  Discard(doc, Join(Where(doc, "-offset-link"), Where(doc, "-offset-underline"),
                    "isAlignedWith"))

\* convertTo(OffsetSource), first half: the vocabulary remap
Remap ==
  /\ q.phase = "pasted"
  /\ q' = [q EXCEPT !.phase = "remapped", !.doc = Remapped(q.doc)]
  /\ ParserUntouched

\* convertTo(OffsetSource), second half: the clean-up pass
Reconcile ==
  /\ q.phase = "remapped"
  /\ q' = [q EXCEPT !.phase = "converted", !.doc = Reconciled(q.doc)]
  /\ ParserUntouched

\* doc.where({type: '-offset-link'}) and doc.where({type: '-offset-underline'})
Select ==
  /\ q.phase = "converted"
  /\ LET links == Where(q.doc, "-offset-link")
         underlines == Where(q.doc, "-offset-underline")
     IN q' = [q EXCEPT !.phase = "selected", !.A = links, !.B = underlines,
                       !.given = <<links, underlines>>]
  /\ ParserUntouched

\* A pasted document of at most MaxDoc annotations.
PasteInit ==
  /\ ParserIdle
  /\ \E raw \in SeqsUpTo({QAnn(t, s) : t \in GDocsTypes, s \in Spans}, MaxDoc) :
       q = [QIdle EXCEPT !.phase = "pasted", !.raw = raw, !.doc = raw]

PasteNext ==
  \/ Remap
  \/ Reconcile
  \/ Select
  \/ JoinCall

PasteSpec == PasteInit /\ [][PasteNext]_vars

\* ------------------------------------------------------------ specification

\* new Parser(tokens, handlers): empty content and annotations, and toTree
\* called on the root { children: [] }.
Init ==
  /\ profile \in DOMAIN Profiles
  /\ pc = "toTree"
  /\ tokens = <<>>
  /\ tree = <<[name |-> "", open |-> 0, close |-> 0, value |-> <<>>,
               parent |-> 0, children |-> <<>>, hasChildren |-> TRUE]>>
  /\ calls = <<Call(Root, "constructor", FALSE)>>
  /\ content = <<>>
  /\ annotations = <<>>
  /\ owner = <<>>
  /\ built = <<>>
  /\ wstack = <<>>
  /\ hlog = <<>>
  /\ error = "none"
  /\ result = [returned |-> FALSE, content |-> <<>>, annotations |-> <<>>]
  /\ q = QIdle

Next ==
  \/ Softbreak
  \/ TextToken
  \/ InlineToken
  \/ ChildrenToken
  \/ OpenToken
  \/ CloseToken
  \/ Atomic
  \/ ReturnNested
  \/ ReturnRoot
  \/ WalkText
  \/ WalkEnter
  \/ WalkLeave
  \/ WalkLeaveHandled
  \/ WalkDone

Spec == Init /\ [][Next]_vars

\* ------------------------------------------------------------------ claims

Done == pc = "done"

Anns == 1..Len(annotations)

\* annotations[i] is a semantic annotation, not a 'parse-token' marker
IsSem(i) == annotations[i].type # "parse-token"

IsOpenMarker(i) ==
  /\ annotations[i].type = "parse-token"
  /\ annotations[i].end = annotations[i].start + 1
  /\ annotations[i].attributes["type"] = Name(tree[owner[i]].name \o "_open")

Kids(t, n) == {t[n].children[i] : i \in 1..Len(t[n].children)}

RECURSIVE Below(_, _)
\* the nodes strictly below node n in tree t
Below(t, n) == Kids(t, n) \cup UNION {Below(t, k) : k \in Kids(t, n)}

\* the non-text nodes walk visits: those below the root
Walked == {n \in Below(tree, Root) : tree[n].name # "text"}

\* C1: every annotation, marker or semantic, lies inside the buffer:
\* 0 <= start <= end <= len(content); and a completed conversion hands the
\* caller exactly this buffer and these annotations.
C1_Boundaries ==
  /\ \A i \in Anns :
       /\ 0 <= annotations[i].start
       /\ annotations[i].start <= annotations[i].end
       /\ annotations[i].end <= Len(content)
  /\ Done => result = [returned |-> TRUE, content |-> content,
                       annotations |-> annotations]

C1_Witness ==
  /\ Done
  /\ \E i, j \in Anns : IsSem(i) /\ ~IsSem(j) /\ annotations[i].end = Len(content)
  /\ Len(annotations) >= 6

\* C2: the interval of a descendant's semantic annotation lies inside the
\* interval of each of its ancestors' semantic annotations, at any depth.
C2_Nesting ==
  \A i, j \in Anns :
    (IsSem(i) /\ IsSem(j) /\ owner[j] \in Below(tree, owner[i]))
      => /\ annotations[i].start <= annotations[j].start
         /\ annotations[j].end <= annotations[i].end

C2_Witness ==
  /\ Done
  /\ \E i, j \in Anns :
       /\ IsSem(i) /\ IsSem(j)
       /\ owner[j] \in Below(tree, owner[i])
       /\ owner[j] \notin Kids(tree, owner[i])

RECURSIVE Emitted(_, _)
\* what walking node n appends to the buffer, by the two-phase rule: a text
\* node its value, any other node a placeholder, its children, a placeholder
Emitted(t, n) ==
  IF t[n].name = "text" THEN t[n].value
  ELSE <<OBJ>>
         \o Concat([i \in 1..Len(t[n].children) |-> Emitted(t, t[n].children[i])])
         \o <<OBJ>>

\* C3: when a conversion completes, each semantic annotation [start, end)
\* starts and ends on its node's two placeholders, the slice between them is
\* exactly what the node's descendants appended, in document order, and
\* the buffer holds nothing but what the walked nodes appended.
C3_Bracketing ==
  Done =>
    /\ \A i \in Anns :
         IsSem(i) =>
           LET a == annotations[i]
           IN /\ a.end - a.start >= 2
              /\ content[a.start + 1] = OBJ
              /\ content[a.end] = OBJ
              /\ SubSeq(content, a.start + 1, a.end) = Emitted(tree, owner[i])
    /\ content = Concat([i \in 1..Len(tree[Root].children) |->
                           Emitted(tree, tree[Root].children[i])])

C3_Witness ==
  /\ Done
  /\ \E i \in Anns :
       /\ IsSem(i)
       /\ \E k1, k2 \in Kids(tree, owner[i]) :
            /\ tree[k1].name = "text"
            /\ tree[k2].name # "text"
            /\ Kids(tree, k2) # {}

RECURSIVE PostOrder(_, _)
\* the non-text nodes of the subtrees of kids, children before their parent
PostOrder(t, kids) ==
  IF kids = <<>> THEN <<>>
  ELSE (IF t[Head(kids)].name = "text" THEN <<>>
        ELSE PostOrder(t, t[Head(kids)].children) \o <<Head(kids)>>)
       \o PostOrder(t, Tail(kids))

RECURSIVE PreOrder(_, _)
\* the non-text nodes of the subtrees of kids, parents before their children
PreOrder(t, kids) ==
  IF kids = <<>> THEN <<>>
  ELSE (IF t[Head(kids)].name = "text" THEN <<>>
        ELSE <<Head(kids)>> \o PreOrder(t, t[Head(kids)].children))
       \o PreOrder(t, Tail(kids))

RECURSIVE OwnersWhere(_, _)
\* the owners of the annotations that satisfy Keep, in collection order
OwnersWhere(Keep(_), i) ==
  IF i > Len(annotations) THEN <<>>
  ELSE (IF Keep(i) THEN <<owner[i]>> ELSE <<>>) \o OwnersWhere(Keep, i + 1)

\* C4: at every moment, a node's semantic annotation is in the collection
\* only after all three annotations of every walked node below it, and its
\* open marker comes before all of those; in a completed conversion the
\* semantic annotations are in post-order and the open markers in pre-order.
C4_FinalizationOrder ==
  /\ \A i \in Anns :
       IsSem(i) =>
         \A d \in Below(tree, owner[i]) :
           tree[d].name # "text" =>
             /\ Cardinality({j \in Anns : owner[j] = d /\ j < i}) = 3
             /\ \A j \in Anns :
                  owner[j] = d =>
                    \E o \in Anns : o < j /\ owner[o] = owner[i] /\ IsOpenMarker(o)
  /\ Done =>
       /\ OwnersWhere(IsSem, 1) = PostOrder(tree, tree[Root].children)
       /\ OwnersWhere(IsOpenMarker, 1) = PreOrder(tree, tree[Root].children)

C4_Witness ==
  /\ Done
  /\ Len(annotations) >= 9
  /\ OwnersWhere(IsSem, 1) # OwnersWhere(IsOpenMarker, 1)

\* C5: a closing token met while the cursor is at the root (the root's close
\* field is then set) makes the conversion abort: the caller never gets a
\* parser back, wherever in the stream that token is.
C5_UnbalancedFailsFast == tree[Root].close # 0 => ~result.returned

Calls == 1..Len(hlog)

\* C6: once a handler has thrown, the conversion has failed with that error,
\* that call is the last handler call, nothing was pushed and nothing appended
\* to the buffer after it (the failing node has no close marker and no
\* semantic annotation), and the caller holds no result.
C6_HandlerFailure ==
  \A c \in Calls :
    hlog[c].throws =>
      /\ pc = "failed"
      /\ error = "HandlerError"
      /\ ~result.returned
      /\ c = Len(hlog)
      /\ Len(annotations) = hlog[c].pushed
      /\ Len(content) = hlog[c].length
      /\ Cardinality({i \in Anns : owner[i] = hlog[c].node}) = 1

C6_Witness ==
  \E c \in Calls :
    /\ hlog[c].throws
    /\ pc = "failed"
    /\ c > 1
    /\ \E i \in Anns : IsSem(i)

\* the patch the handler returned for node n (empty when none was called)
PatchOf(n) ==
  IF \E c \in Calls : hlog[c].node = n /\ ~hlog[c].throws
  THEN hlog[CHOOSE c \in Calls : hlog[c].node = n /\ ~hlog[c].throws].patch
  ELSE EmptyMap

\* some child of list node n has a paragraph child whose open token is hidden
SomeItemHidden(n) ==
  \E item \in Kids(tree, n) :
    \E p \in Kids(tree, item) :
      tree[p].name = "paragraph" /\ tokens[tree[p].open].hidden

\* C7 as stated: the 'tight' attribute of every list node's semantic
\* annotation is true iff some item of the list has a hidden paragraph child.
C7_TightIffHidden ==
  Done =>
    \A i \in Anns :
      (IsSem(i) /\ IsList(tree[owner[i]].name)) =>
        /\ "tight" \in DOMAIN annotations[i].attributes
        /\ annotations[i].attributes["tight"] = Bool(SomeItemHidden(owner[i]))

\* C7 as amended: the 'tight' attribute of a list node's semantic annotation
\* is true iff some item of the list has a hidden paragraph child, unless the
\* handler registered for the list's type returned a patch with a 'tight' key,
\* in which case it is the patch's value.
C7_TightUnlessPatched ==
  Done =>
    \A i \in Anns :
      (IsSem(i) /\ IsList(tree[owner[i]].name)) =>
        /\ "tight" \in DOMAIN annotations[i].attributes
        /\ annotations[i].attributes["tight"] =
             IF "tight" \in DOMAIN PatchOf(owner[i])
             THEN PatchOf(owner[i])["tight"]
             ELSE Bool(SomeItemHidden(owner[i]))

\* a list of two items, one of them holding a hidden paragraph, is tight
C7_Witness ==
  /\ Done
  /\ \E i \in Anns :
       /\ IsSem(i) /\ IsList(tree[owner[i]].name)
       /\ PatchOf(owner[i]) = EmptyMap
       /\ annotations[i].attributes["tight"] = Bool(TRUE)
       /\ Cardinality(Kids(tree, owner[i])) = 2
       /\ \E item \in Kids(tree, owner[i]) :
            \A p \in Kids(tree, item) : tree[p].name # "paragraph"

RECURSIVE TextUnder(_, _)
\* the values of the text nodes of the subtree of n, in document order
TextUnder(t, n) ==
  IF t[n].name = "text" THEN t[n].value
  ELSE Concat([i \in 1..Len(t[n].children) |-> TextUnder(t, t[n].children[i])])

\* C8 as stated: the 'alt' attribute of every image node's semantic
\* annotation is the concatenation of all text below the image in the tree
\* toTree built, the image's children are discarded, and the annotation
\* spans just the two placeholders.
C8_ImageAlt ==
  Done =>
    \A i \in Anns :
      (IsSem(i) /\ tree[owner[i]].name = "image") =>
        /\ "alt" \in DOMAIN annotations[i].attributes
        /\ annotations[i].attributes["alt"] = Text(TextUnder(built, owner[i]))
        /\ tree[owner[i]].children = <<>>
        /\ annotations[i].end = annotations[i].start + 2

\* C8 as amended: as stated, unless the handler registered for 'image'
\* returned a patch with an 'alt' key, in which case 'alt' is the patch's
\* value; the children are discarded and the span is two units either way.
C8_ImageAltUnlessPatched ==
  Done =>
    \A i \in Anns :
      (IsSem(i) /\ tree[owner[i]].name = "image") =>
        /\ "alt" \in DOMAIN annotations[i].attributes
        /\ annotations[i].attributes["alt"] =
             IF "alt" \in DOMAIN PatchOf(owner[i])
             THEN PatchOf(owner[i])["alt"]
             ELSE Text(TextUnder(built, owner[i]))
        /\ tree[owner[i]].children = <<>>
        /\ annotations[i].end = annotations[i].start + 2

\* an image whose token carried alt 'x', over an emphasis holding the text
\* 'a' and a code span 'b': alt is 'ab'
C8_Witness ==
  /\ Done
  /\ \E i \in Anns :
       /\ IsSem(i) /\ tree[owner[i]].name = "image"
       /\ <<"alt", Text(<<"x">>)>> \in
            {tokens[tree[owner[i]].open].attrs[k] :
               k \in 1..Len(tokens[tree[owner[i]].open].attrs)}
       /\ annotations[i].attributes["alt"] = Text(<<"a", "b">>)
       /\ \A k \in Kids(built, owner[i]) : built[k].name # "text"
       /\ content = <<OBJ, OBJ>>

\* C9: the attributes of a node's semantic annotation are the open token's
\* attributes plus heading level and fence info, with the patch its handler
\* returned merged last: a key of the patch has the patch's value, any other
\* key its earlier value, and there are no further keys; without a handler
\* the patch is empty and the attributes are the earlier ones.
C9_PatchMerge ==
  \A i \in Anns :
    IsSem(i) =>
      LET n == owner[i]
          before == TypeAttributes(tree[n].name, tokens[tree[n].open])
          patch == PatchOf(n)
          attrs == annotations[i].attributes
      IN /\ HasHandler(tree[n].name) <=> \E c \in Calls : hlog[c].node = n
         /\ DOMAIN attrs = DOMAIN before \cup DOMAIN patch
         /\ \A k \in DOMAIN patch : attrs[k] = patch[k]
         /\ \A k \in DOMAIN before \ DOMAIN patch : attrs[k] = before[k]

\* a heading whose token has id 'i' and tag h1: the patch's level 9 replaces
\* the level 1 of the tag, the id is kept
C9_Witness ==
  \E i \in Anns :
    /\ IsSem(i) /\ tree[owner[i]].name = "heading"
    /\ TypeAttributes("heading", tokens[tree[owner[i]].open])["level"] = Num(1)
    /\ "level" \in DOMAIN PatchOf(owner[i])
    /\ annotations[i].attributes["level"] = Num(9)
    /\ annotations[i].attributes["id"] = Text(<<"i">>)
    /\ annotations[i].attributes["extra"] = Name("e")

SemAnns == {i \in Anns : IsSem(i)}

\* C10: a completed conversion holds exactly one semantic annotation for each
\* non-text node walked, typed with the node's name, and none for a text
\* node; a heading with tag h2 and no handler has level 2, and its interval
\* strictly contains the intervals of the nodes below it.
C10_OnePerNode ==
  Done =>
    /\ \A n \in Walked : Cardinality({i \in SemAnns : owner[i] = n}) = 1
    /\ \A i \in Anns : owner[i] \in Walked
    /\ \A i \in SemAnns : annotations[i].type = tree[owner[i]].name
    /\ Cardinality(SemAnns) = Cardinality(Walked)
    /\ \A i \in SemAnns :
         (tree[owner[i]].name = "heading" /\ ~HasHandler("heading")
            /\ tokens[tree[owner[i]].open].tag = <<"h", "2">>) =>
           /\ annotations[i].attributes["level"] = Num(2)
           /\ \A j \in SemAnns :
                owner[j] \in Below(tree, owner[i]) =>
                  /\ annotations[i].start < annotations[j].start
                  /\ annotations[j].end < annotations[i].end

\* a level-2 heading wrapping two emphasis nodes, the first over 'a': exactly
\* three semantic annotations
C10_Witness ==
  /\ Done
  /\ Cardinality(SemAnns) = 3
  /\ \E h, e1, e2 \in SemAnns :
       /\ annotations[h].type = "heading"
       /\ annotations[h].attributes["level"] = Num(2)
       /\ e1 # e2
       /\ annotations[e1].type = "em" /\ annotations[e2].type = "em"
       /\ Kids(tree, owner[h]) = {owner[e1], owner[e2]}
       /\ \E k \in Kids(tree, owner[e1]) : tree[k].value = <<"a">>
       /\ annotations[h].start < annotations[e1].start
       /\ annotations[e2].end < annotations[h].end

\* ------------------------------------------------------------ query claims

Joined == q.phase = "joined"

\* the index pairs of the product A x B whose annotations satisfy the relation
Satisfying ==
  {ij \in (1..Len(q.A)) \X (1..Len(q.B)) : Holds(q.rel, q.A[ij[1]], q.B[ij[2]])}

\* C11: join(A, B, relation) returns exactly the pairs (a, b) of the product
\* of A and B for which relation(a, b) holds -- every returned pair satisfies
\* it, every satisfying pair is returned once -- and leaves A and B as they
\* were; an empty A or B gives an empty result; with isAlignedWith, a link and
\* an underline both on [5, 12) give exactly one pair, and none when the
\* underline is on [5, 11).
C11_JoinComplete ==
  Joined =>
    /\ \A k \in 1..Len(q.pairs) :
         \E ij \in Satisfying :
           q.pairs[k] = [left |-> q.A[ij[1]], right |-> q.B[ij[2]]]
    /\ \A ij \in Satisfying :
         \E k \in 1..Len(q.pairs) :
           q.pairs[k] = [left |-> q.A[ij[1]], right |-> q.B[ij[2]]]
    /\ Len(q.pairs) = Cardinality(Satisfying)
    /\ q.given = <<q.A, q.B>>
    /\ (q.A = <<>> \/ q.B = <<>>) => q.pairs = <<>>
    /\ (q.rel = "isAlignedWith" /\ q.A = <<QAnn("-offset-link", <<5, 12>>)>>) =>
         /\ q.B = <<QAnn("-offset-underline", <<5, 12>>)>> => Len(q.pairs) = 1
         /\ q.B = <<QAnn("-offset-underline", <<5, 11>>)>> => Len(q.pairs) = 0

\* a link on [5, 12) joined on alignment with two underlines, one on [5, 12)
\* and one on [5, 11): the one aligned pair, and only it, is returned
C11_Witness ==
  /\ Joined
  /\ q.rel = "isAlignedWith"
  /\ q.A = <<QAnn("-offset-link", <<5, 12>>)>>
  /\ q.B = <<QAnn("-offset-underline", <<5, 11>>), QAnn("-offset-underline", <<5, 12>>)>>
  /\ q.pairs = <<[left |-> q.A[1], right |-> q.B[2]]>>

Converted == q.phase \in {"converted", "selected", "joined"}

\* the annotations of the document of one type
OfType(type) == {i \in 1..Len(q.doc) : q.doc[i].type = type}

\* C12: after a Google Docs paste is converted to the offset vocabulary, no
\* -offset-underline annotation has the same start and the same end as an
\* -offset-link annotation: joining the links with the underlines on
\* isAlignedWith yields no pair.
C12_NoAlignedUnderline ==
  /\ Converted =>
       \A l \in OfType("-offset-link"), u \in OfType("-offset-underline") :
         ~(q.doc[l].start = q.doc[u].start /\ q.doc[l].end = q.doc[u].end)
  /\ (Joined /\ q.raw # <<>>) => Len(q.pairs) = 0

\* a paste of a link on [5, 12) with an underline on [5, 12) and one on
\* [5, 11): the join after conversion runs over the link and the one
\* underline that is left, and finds no pair
C12_Witness ==
  /\ Joined
  /\ Len(q.raw) = 3
  /\ \E l, u, v \in 1..3 :
       /\ q.raw[l] = QAnn("-gdocs-lnks_link", <<5, 12>>)
       /\ q.raw[u] = QAnn("-gdocs-ts_un", <<5, 12>>)
       /\ q.raw[v] = QAnn("-gdocs-ts_un", <<5, 11>>)
  /\ q.A = <<QAnn("-offset-link", <<5, 12>>)>>
  /\ q.B = <<QAnn("-offset-underline", <<5, 11>>)>>
  /\ q.pairs = <<>>

\* ------------------------------------------------------------ tree claims

\* C13: in the tree toTree builds, every node in a node P's children has its
\* parent link set to P, and the root has no parent; the synthetic text child
\* of an atomic leaf node included.
C13_Ownership ==
  /\ tree[Root].parent = 0
  /\ \A p \in 1..Len(tree) : \A c \in Kids(tree, p) : tree[c].parent = p

\* ------------------------------------------------------------ frame claims

\* C14: during a conversion the annotation collection only grows at its end:
\* every step leaves each annotation already in it in place with its type,
\* attributes, start and end as they were, whatever handler runs or however
\* the buffer grows afterwards.
C14_AppendOnly ==
  [][/\ Len(annotations') >= Len(annotations)
     /\ SubSeq(annotations', 1, Len(annotations)) = annotations]_vars

\* a completed conversion in which a handler returned a non-empty patch when
\* annotations were already in the collection, and more were appended and
\* the buffer grew after that call
C14_Witness ==
  /\ Done
  /\ \E c \in Calls :
       /\ ~hlog[c].throws
       /\ hlog[c].patch # EmptyMap
       /\ hlog[c].pushed >= 1
       /\ Len(annotations) > hlog[c].pushed + 2
       /\ Len(content) > hlog[c].length

\* a step in which toTree meets an inline token
MeetsInline ==
  /\ Len(tokens') = Len(tokens) + 1
  /\ TokType(tokens'[Len(tokens')]) = "inline"

\* a step in which the nested call of an inline token, its cursor still on
\* the node it was started on, builds a node
BuildsAtInlineStart ==
  /\ pc = "toTree"
  /\ Len(tree') > Len(tree)
  /\ calls[Len(calls)].via = "inline"
  /\ Cur = calls[Len(calls)].rootNode

Leaves ==
  {n \in 2..Len(tree) :
     /\ tree[n].open # 0
     /\ Branch(tokens[tree[n].open]) = "atomic"
     /\ tree[n].children # <<>>}

LeafText(n) == tree[tree[n].children[1]].value

StartsWithBacktick(s) == s # <<>> /\ s[1] = BT

EndsWithBacktick(s) == s # <<>> /\ s[Len(s)] = BT

\* C16: the text of a code_inline leaf is the token's content with one space
\* in front if and only if the content starts with a backtick and one space
\* behind if and only if it ends with one, so it neither starts nor ends with
\* a backtick (a lone backtick gets both spaces, empty content none); the text
\* of any other atomic leaf is the token's content as it is.
C16_CodePadding ==
  \A n \in Leaves :
    LET c == tokens[tree[n].open].content
        text == LeafText(n)
    IN IF tree[n].name = "code_inline"
       THEN /\ text = (IF StartsWithBacktick(c) THEN <<" ">> ELSE <<>>) \o c
                        \o (IF EndsWithBacktick(c) THEN <<" ">> ELSE <<>>)
            /\ ~StartsWithBacktick(text)
            /\ ~EndsWithBacktick(text)
            /\ c = <<BT>> => text = <<" ", BT, " ">>
            /\ c = <<>> => text = <<>>
       ELSE text = c

\* a tree holding a code span of a lone backtick, padded on both sides, a
\* code span of a, backtick, padded behind only, and an html_inline leaf of a
\* lone backtick, not padded
C16_Witness ==
  \E n, m, h \in Leaves :
    /\ tree[n].name = "code_inline"
    /\ tokens[tree[n].open].content = <<BT>>
    /\ LeafText(n) = <<" ", BT, " ">>
    /\ tree[m].name = "code_inline"
    /\ tokens[tree[m].open].content = <<"a", BT>>
    /\ LeafText(m) = <<"a", BT, " ">>
    /\ tree[h].name = "html_inline"
    /\ LeafText(h) = <<BT>>

\* the tree as toTree builds it: under construction, then as it returned it
Tree == IF pc = "toTree" THEN tree ELSE built

\* the nodes of t built from atomic tokens
AtomicNodes(t) ==
  {n \in 2..Len(t) : t[n].open # 0 /\ Branch(tokens[t[n].open]) = "atomic"}

\* node n of t is named after its token, opened and closed by it, and has
\* one child, a childless text node holding the token's content, padded or not
LeafShape(t, n) ==
  LET tok == tokens[t[n].open]
  IN /\ t[n].name = TokType(tok)
     /\ t[n].close = t[n].open
     /\ Len(t[n].children) = 1
     /\ LET text == t[t[n].children[1]]
        IN /\ text.name = "text"
           /\ text.children = <<>>
           /\ \/ text.value = tok.content
              \/ /\ t[n].name = "code_inline"
                 /\ text.value = PadLast(PadFirst(tok.content))

\* a step in which toTree meets an atomic token without failing
MeetsAtomic ==
  /\ Len(tokens') = Len(tokens) + 1
  /\ Branch(tokens'[Len(tokens')]) = "atomic"
  /\ pc' = "toTree"

\* the step adds the leaf and its text child and leaves the cursor where it is
LeafAdded ==
  /\ Len(tree') = Len(tree) + 2
  /\ tree'[Cur].children = Append(tree[Cur].children, Len(tree) + 1)
  /\ tree'[Len(tree) + 1].children = <<Len(tree) + 2>>
  /\ Len(calls') = Len(calls)
  /\ calls'[Len(calls')].cur = Cur

\* the length of the interval of the semantic annotation of node n
IntervalOf(n) ==
  LET i == CHOOSE i \in SemAnns : owner[i] = n
  IN annotations[i].end - annotations[i].start

BuiltText(n) == built[built[n].children[1]].value

\* C17 as stated: an atomic token becomes a node named after its type whose
\* open and close are that token, with exactly one child, a text node holding
\* the (possibly padded) content; the cursor does not move; and the node's
\* semantic annotation has end - start = length of that text + 2.
C17_AtomicLeaf ==
  /\ [](/\ \A n \in AtomicNodes(Tree) : LeafShape(Tree, n)
        /\ Done => \A n \in AtomicNodes(built) \cap Walked :
                     IntervalOf(n) = Len(BuiltText(n)) + 2)
  /\ [][MeetsAtomic => LeafAdded]_vars

\* C17, amended: as stated, except that the interval of an atomic image node,
\* whose text child walk discards, has end - start = 2.
C17_AtomicLeafUnlessImage ==
  /\ [](/\ \A n \in AtomicNodes(Tree) : LeafShape(Tree, n)
        /\ Done => \A n \in AtomicNodes(built) \cap Walked :
                     IntervalOf(n) = IF built[n].name = "image" THEN 2
                                     ELSE Len(BuiltText(n)) + 2)
  /\ [][MeetsAtomic => LeafAdded]_vars

\* a completed conversion of a code span of b, whose interval has length 3,
\* and an image token without child tokens and content c, whose interval has
\* length 2
C17_Witness ==
  /\ Done
  /\ \E n, m \in AtomicNodes(built) \cap Walked :
       /\ built[n].name = "code_inline"
       /\ BuiltText(n) = <<"b">>
       /\ IntervalOf(n) = 3
       /\ built[m].name = "image"
       /\ BuiltText(m) = <<"c">>
       /\ IntervalOf(m) = 2

\* ------------------------------------------------------------ buffer claims

IsSoftbreak(i) == Branch(tokens[i]) = "softbreak"

\* the maximal runs of consecutive softbreak tokens, by their first token
SoftbreakRuns ==
  {i \in 1..Len(tokens) : IsSoftbreak(i) /\ (i = 1 \/ ~IsSoftbreak(i - 1))}

Newlines == {j \in 1..Len(content) : content[j] = "\n"}

\* C18: a run of k >= 1 consecutive softbreak tokens puts exactly one newline
\* in the buffer, and no annotation: a completed conversion holds as many
\* newlines as the stream has runs of softbreaks, and three annotations for
\* each non-text node and none besides.
C18_SoftbreakRun ==
  Done =>
    /\ Cardinality(Newlines) = Cardinality(SoftbreakRuns)
    /\ Len(annotations) = 3 * Cardinality(Walked)

\* ------------------------------------------------------------ implicit claims

StrictlyInside(a, b) == b.start < a.start /\ a.end < b.end

Disjoint(a, b) == a.end <= b.start \/ b.end <= a.start

\* C19: any two semantic annotations of a conversion are strictly nested, the
\* inner one starting after the outer's start and ending before its end, or
\* disjoint, never partially overlapping; and of two children of one node,
\* the earlier one's annotation ends at or before the later one's start.
C19_Laminar ==
  /\ \A i, j \in SemAnns :
       i # j =>
         \/ StrictlyInside(annotations[i], annotations[j])
         \/ StrictlyInside(annotations[j], annotations[i])
         \/ Disjoint(annotations[i], annotations[j])
  /\ \A p \in 1..Len(tree) :
       \A a, b \in 1..Len(tree[p].children) :
         a < b =>
           \A i \in SemAnns :
             owner[i] = tree[p].children[a] =>
               \A j \in SemAnns :
                 owner[j] = tree[p].children[b] =>
                   annotations[i].end <= annotations[j].start

\* a completed conversion with a node holding two non-text children one after
\* the other, the first ending where the second starts, both strictly inside
\* their parent's interval
C19_Witness ==
  /\ Done
  /\ \E h, i, j \in SemAnns :
       /\ {owner[i], owner[j]} \subseteq Kids(tree, owner[h])
       /\ annotations[i].end = annotations[j].start
       /\ StrictlyInside(annotations[i], annotations[h])
       /\ StrictlyInside(annotations[j], annotations[h])

\* the buffer without its placeholder units
Stripped == SelectSeq(content, LAMBDA u : u # OBJ)

RECURSIVE TextOutsideImages(_, _)
\* the text values at or below node n of t in document order, those below
\* an image node left out
TextOutsideImages(t, n) ==
  IF t[n].name = "text" THEN t[n].value
  ELSE IF t[n].name = "image" THEN <<>>
  ELSE Concat([i \in 1..Len(t[n].children) |->
                 TextOutsideImages(t, t[n].children[i])])

RECURSIVE NodesOutsideImages(_, _)
\* the non-text nodes at or below node n of t, those below an image node
\* left out
NodesOutsideImages(t, n) ==
  IF t[n].name = "text" THEN {}
  ELSE IF t[n].name = "image" THEN {n}
  ELSE {n} \cup UNION {NodesOutsideImages(t, k) : k \in Kids(t, n)}

\* C20: when a conversion completes, the buffer's length is twice the number
\* of non-text nodes walked plus the lengths of the walked text values, and
\* the buffer without its placeholders is the concatenation, in document
\* order, of the text values of the tree toTree built, none lost, repeated or
\* moved, but for the text below image nodes.
C20_ContentAccounting ==
  Done =>
    /\ Walked = NodesOutsideImages(built, Root) \ {Root}
    /\ Stripped = TextOutsideImages(built, Root)
    /\ Len(content) = 2 * Cardinality(Walked) + Len(TextOutsideImages(built, Root))
    /\ Cardinality({j \in 1..Len(content) : content[j] = OBJ}) = 2 * Cardinality(Walked)

\* a completed conversion of an image with a child text, which is left out of
\* the buffer, and of text outside the image, which is in it
C20_Witness ==
  /\ Done
  /\ \E n \in Walked : built[n].name = "image" /\ TextUnder(built, n) # <<>>
  /\ Stripped # <<>>
  /\ TextUnder(built, Root) # Stripped
  /\ Cardinality(Walked) >= 2

====
